---- MODULE Spec2Model ----
(***************************************************************************)
(* Model of build_index.py: the gallery indexer scans the direct child     *)
(* folders of the working directory, finds each folder's "title" image,    *)
(* sorts the folders by their date prefix and writes index.html.           *)
(*                                                                         *)
(* A name is a sequence of code points (Python str), a path a sequence of  *)
(* names relative to the working directory (<<>> is the root).  The file   *)
(* system is case-sensitive.                                               *)
(***************************************************************************)
EXTENDS Integers, Sequences, FiniteSets, TLC

VARIABLES tree, unreadable, writable, pc, candidates, pos, folders, html,
          outContent, writes, exitStatus, run, firstOut

vars == <<tree, unreadable, writable, pc, candidates, pos, folders, html,
          outContent, writes, exitStatus, run, firstOut>>

\* ------------------------------------------------------------------ bounds
\* most direct child folders of the root in the sorting scenarios
MaxDirs == 3
\* most children of the inspected folder in the folder-content scenarios
MaxFiles == 2
\* most directories whose listing is denied in the failure scenarios
MaxFaults == 1

\* ------------------------------------------------------- program constants
\* "title"
IMAGE_BASENAME == <<116, 105, 116, 108, 101>>
\* [".jpg", ".jpeg", ".png", ".webp", ".gif"]
IMAGE_EXTS == << <<46, 106, 112, 103>>, <<46, 106, 112, 101, 103>>,
                 <<46, 112, 110, 103>>, <<46, 119, 101, 98, 112>>,
                 <<46, 103, 105, 102>> >>
\* (".", "_")
EXCLUDE_DIR_PREFIXES == { <<46>>, <<95>> }
SORT_DESC == TRUE
\* "index.html"
OUTPUT_FILE == <<105, 110, 100, 101, 120, 46, 104, 116, 109, 108>>
\* "_index.html"
INDEX_NAME == <<95, 105, 110, 100, 101, 120, 46, 104, 116, 109, 108>>
\* datetime.date(1900,1,1)
EpochDate == <<1900, 1, 1>>

\* ------------------------------------------------------------ str helpers
\* str.lower() on ASCII: 'A'..'Z' (65..90) map to 'a'..'z'
Lower(s) == [i \in 1..Len(s) |-> IF s[i] >= 65 /\ s[i] <= 90 THEN s[i] + 32 ELSE s[i]]

\* str.startswith(prefix)
StartsWith(s, p) == Len(s) >= Len(p) /\ SubSeq(s, 1, Len(p)) = p

\* str.rfind('.'), 1-based, 0 when there is no dot
RFindDot(s) ==
    LET dots == {i \in 1..Len(s) : s[i] = 46}
    IN IF dots = {} THEN 0 ELSE CHOOSE i \in dots : \A j \in dots : j <= i

\* PurePath.suffix: the last dot must be neither the first nor the last char
Suffix(name) ==
    LET i == RFindDot(name)
    IN IF i > 1 /\ i < Len(name) THEN SubSeq(name, i, Len(name)) ELSE <<>>

\* PurePath.stem
Stem(name) ==
    LET i == RFindDot(name)
    IN IF i > 1 /\ i < Len(name) THEN SubSeq(name, 1, i - 1) ELSE name

\* Python's str comparison a < b: code point by code point, a prefix first
RECURSIVE StrLess(_, _)
StrLess(a, b) ==
    IF b = <<>> THEN FALSE
    ELSE IF a = <<>> THEN TRUE
    ELSE IF Head(a) # Head(b) THEN Head(a) < Head(b)
    ELSE StrLess(Tail(a), Tail(b))

\* one upper-case hexadecimal digit as a code point
HexDigit(n) == IF n < 10 THEN 48 + n ELSE 55 + n

\* urllib.parse.quote's unreserved set plus its default safe='/'
QuoteSafe(c) ==
    \/ c >= 48 /\ c <= 57
    \/ c >= 65 /\ c <= 90
    \/ c >= 97 /\ c <= 122
    \/ c \in {45, 46, 95, 126, 47}

\* urllib.parse.quote(s) for ASCII s: every other char becomes %XX
RECURSIVE quote(_)
quote(s) ==
    IF s = <<>> THEN <<>>
    ELSE (IF QuoteSafe(Head(s)) THEN <<Head(s)>>
          ELSE <<37, HexDigit(Head(s) \div 16), HexDigit(Head(s) % 16)>>)
         \o quote(Tail(s))

\* str(path) of a relative path: the names joined by '/'
RECURSIVE PathStr(_)
PathStr(p) ==
    IF p = <<>> THEN <<>>
    ELSE IF Len(p) = 1 THEN p[1]
    ELSE p[1] \o <<47>> \o PathStr(Tail(p))

\* ------------------------------------------------------------ file system
\* Path.exists()
Exists(t, p) == \E n \in t : n.path = p
\* Path.is_dir()
IsDir(t, p) == \E n \in t : n.path = p /\ n.kind = "dir"
\* Path.is_file()
IsFile(t, p) == \E n \in t : n.path = p /\ n.kind = "file"
\* the children Path.iterdir() yields, as a set (their order is arbitrary)
IterDir(t, p) ==
    {n.path : n \in {m \in t : Len(m.path) = Len(p) + 1 /\ SubSeq(m.path, 1, Len(p)) = p}}

\* all orders in which a listing may yield the set S
RECURSIVE Perms(_)
Perms(S) ==
    IF S = {} THEN { <<>> }
    ELSE UNION { { <<x>> \o q : q \in Perms(S \ {x}) } : x \in S }

\* p.name
BaseName(p) == p[Len(p)]

\* ------------------------------------------------------- has_title_image
NoImage == [tag |-> "none", path |-> <<>>]
Raised == [tag |-> "raise", path |-> <<>>]
Found(p) == [tag |-> "path", path |-> p]

\* the test of the scan inside has_title_image, for extension ext
ScanMatch(t, f, ext) ==
    /\ IsFile(t, f)
    /\ Lower(Suffix(BaseName(f))) = ext
    /\ Lower(Stem(BaseName(f))) = IMAGE_BASENAME

\* the first element of the listing ord that the scan accepts for ext
FirstScanMatch(t, ord, ext) ==
    LET hits == {i \in 1..Len(ord) : ScanMatch(t, ord[i], ext)}
    IN IF hits = {} THEN NoImage
       ELSE Found(ord[CHOOSE i \in hits : \A j \in hits : i <= j])

\* the loop of has_title_image from the k-th extension on: per extension,
\* the exact probe and then a scan of the folder's listing ord; listing a
\* folder of unr raises
RECURSIVE has_title_image_from(_, _, _, _, _)
has_title_image_from(t, unr, folder, ord, k) ==
    IF k > Len(IMAGE_EXTS) THEN NoImage
    ELSE LET ext == IMAGE_EXTS[k]
             p == Append(folder, IMAGE_BASENAME \o ext)
         IN IF Exists(t, p) THEN Found(p)
            ELSE IF folder \in unr THEN Raised
            ELSE LET m == FirstScanMatch(t, ord, ext)
                 IN IF m.tag = "path" THEN m
                    ELSE has_title_image_from(t, unr, folder, ord, k + 1)

\* variant: every exact probe first, the scans only when all of them missed
has_title_image_exact_first(t, unr, folder, ord) ==
    LET exacts == {k \in 1..Len(IMAGE_EXTS) :
                     Exists(t, Append(folder, IMAGE_BASENAME \o IMAGE_EXTS[k]))}
    IN IF exacts # {}
       THEN Found(Append(folder, IMAGE_BASENAME \o
                   IMAGE_EXTS[CHOOSE k \in exacts : \A j \in exacts : k <= j]))
       ELSE has_title_image_from(t, unr, folder, ord, 1)

has_title_image(t, unr, folder, ord) == has_title_image_from(t, unr, folder, ord, 1)

\* ------------------------------------------------------------ link_target
link_target(t, folder) ==
    LET idx == Append(folder, INDEX_NAME)
    IN IF Exists(t, idx) THEN idx ELSE folder

\* --------------------------------------------- looks_like_yyyymmdd_prefix
\* \d on the ASCII names of this model
IsDigit(c) == c >= 48 /\ c <= 57

\* int() of the digits s[a..b]
RECURSIVE DigitsVal(_, _, _)
DigitsVal(s, a, b) == IF b < a THEN 0 ELSE 10 * DigitsVal(s, a, b - 1) + (s[b] - 48)

IsLeap(y) == y % 4 = 0 /\ (y % 100 # 0 \/ y % 400 = 0)

DaysInMonth(y, m) ==
    IF m = 2 THEN (IF IsLeap(y) THEN 29 ELSE 28)
    ELSE IF m \in {4, 6, 9, 11} THEN 30 ELSE 31

\* strptime(ymd, "%Y%m%d") succeeds: 4+2+2 digits naming a date of
\* datetime's range (year 1..9999)
ValidDate(y, m, d) ==
    /\ y >= 1
    /\ m >= 1 /\ m <= 12
    /\ d >= 1 /\ d <= DaysInMonth(y, m)

\* re.match(r"^(\d{8})", name)
MatchesEightDigits(name) == Len(name) >= 8 /\ \A i \in 1..8 : IsDigit(name[i])

\* (ok, date); the name half of the returned key is the argument itself
looks_like_yyyymmdd_prefix(name) ==
    IF ~MatchesEightDigits(name) THEN [ok |-> FALSE, dt |-> <<>>]
    ELSE LET y == DigitsVal(name, 1, 4)
             m == DigitsVal(name, 5, 6)
             d == DigitsVal(name, 7, 8)
         IN IF ValidDate(y, m, d) THEN [ok |-> TRUE, dt |-> <<y, m, d>>]
            ELSE [ok |-> FALSE, dt |-> <<>>]

\* --------------------------------------------------- sort_key and the sort
sort_key(item) ==
    LET r == looks_like_yyyymmdd_prefix(item.name)
    IN IF r.ok THEN <<r.dt, item.name>> ELSE <<EpochDate, item.name>>

\* variant: the dates are compared by their year alone
DateLess_year_only(a, b) == a[1] < b[1]

\* datetime.date.__lt__
DateLess(a, b) ==
    \/ a[1] < b[1]
    \/ a[1] = b[1] /\ a[2] < b[2]
    \/ a[1] = b[1] /\ a[2] = b[2] /\ a[3] < b[3]

\* tuple comparison of two sort keys
KeyLess(k1, k2) ==
    \/ DateLess(k1[1], k2[1])
    \/ k1[1] = k2[1] /\ StrLess(k1[2], k2[2])

\* variant: reverse flips the dates only, equal dates order by name ascending
SortsBefore_name_ascending(x, e, rev) ==
    LET kx == sort_key(x)
        ke == sort_key(e)
    IN IF kx[1] = ke[1] THEN StrLess(kx[2], ke[2])
       ELSE IF rev THEN DateLess(ke[1], kx[1]) ELSE DateLess(kx[1], ke[1])

\* x is placed strictly before e by list.sort(key=sort_key, reverse=rev)
SortsBefore(x, e, rev) ==
    IF rev THEN KeyLess(sort_key(e), sort_key(x))
    ELSE KeyLess(sort_key(x), sort_key(e))

\* stable insertion of x into the sorted sequence s
RECURSIVE InsertSorted(_, _, _)
InsertSorted(s, x, rev) ==
    IF s = <<>> THEN <<x>>
    ELSE IF SortsBefore(x, Head(s), rev) THEN <<x>> \o s
    ELSE <<Head(s)>> \o InsertSorted(Tail(s), x, rev)

\* folders.sort(key=sort_key, reverse=rev): stable, equal keys keep order
RECURSIVE SortFolders(_, _)
SortFolders(s, rev) ==
    IF s = <<>> THEN <<>>
    ELSE InsertSorted(SortFolders(SubSeq(s, 1, Len(s) - 1), rev), s[Len(s)], rev)

\* ------------------------------------------------------------- build_html
\* str.replace("\\", "/")
ReplaceBackslash(s) == [i \in 1..Len(s) |-> IF s[i] = 92 THEN 47 ELSE s[i]]

\* the URL build_html derives from a path below the working directory
Url(p) == quote(ReplaceBackslash(PathStr(p)))

\* one card of the page
Card(e) == [href |-> Url(e.href), src |-> Url(e.img), alt |-> e.name]

\* the cards of the page, in the order of entries
build_html(entries) == [i \in 1..Len(entries) |-> Card(entries[i])]

\* ------------------------------------------------------------------ inputs
File(p) == [path |-> p, kind |-> "file"]
Dir(p) == [path |-> p, kind |-> "dir"]

\* "title.jpg", "title.png", "title.txt"
TitleJpg == <<116, 105, 116, 108, 101, 46, 106, 112, 103>>
TitlePng == <<116, 105, 116, 108, 101, 46, 112, 110, 103>>
TitleTxt == <<116, 105, 116, 108, 101, 46, 116, 120, 116>>
\* "TITLE.JPG", "Title.jpg", "TITLE.PNG", "TITLE.GIF"
UpperTitleJpg == <<84, 73, 84, 76, 69, 46, 74, 80, 71>>
MixedTitleJpg == <<84, 105, 116, 108, 101, 46, 106, 112, 103>>
UpperTitlePng == <<84, 73, 84, 76, 69, 46, 80, 78, 71>>
UpperTitleGif == <<84, 73, 84, 76, 69, 46, 71, 73, 70>>
\* "sub"
SubName == <<115, 117, 98>>

\* "20240102_a", "20240101_a", "20240101_b"
D20240102a == <<50, 48, 50, 52, 48, 49, 48, 50, 95, 97>>
D20240101a == <<50, 48, 50, 52, 48, 49, 48, 49, 95, 97>>
D20240101b == <<50, 48, 50, 52, 48, 49, 48, 49, 95, 98>>
\* "18991231_a", "19000101_a", "00010101_a", "99991231"
D18991231a == <<49, 56, 57, 57, 49, 50, 51, 49, 95, 97>>
D19000101a == <<49, 57, 48, 48, 48, 49, 48, 49, 95, 97>>
D00010101a == <<48, 48, 48, 49, 48, 49, 48, 49, 95, 97>>
D99991231 == <<57, 57, 57, 57, 49, 50, 51, 49>>
\* "20241301_a" (month 13), "20230229_a" (no leap day), "00000101_a" (year 0)
Bad20241301a == <<50, 48, 50, 52, 49, 51, 48, 49, 95, 97>>
Bad20230229a == <<50, 48, 50, 51, 48, 50, 50, 57, 95, 97>>
Bad00000101a == <<48, 48, 48, 48, 48, 49, 48, 49, 95, 97>>
\* "readme", "2024010" (seven digits), "my dir", "_drafts", ".git"
Readme == <<114, 101, 97, 100, 109, 101>>
SevenDigits == <<50, 48, 50, 52, 48, 49, 48>>
MyDir == <<109, 121, 32, 100, 105, 114>>
Drafts == <<95, 100, 114, 97, 102, 116, 115>>
DotGit == <<46, 103, 105, 116>>

\* the subsets of S of at most k elements
SubsetsUpTo(S, k) == {T \in SUBSET S : Cardinality(T) <= k}

\* the children a folder of the folder-content scenarios may hold, each as
\* the set of nodes it contributes below the folder
ChildUniverse ==
    { {File(<<TitleJpg>>)}, {Dir(<<TitleJpg>>)}, {File(<<TitlePng>>)},
      {File(<<UpperTitleJpg>>)}, {File(<<MixedTitleJpg>>)},
      {File(<<UpperTitlePng>>)}, {Dir(<<UpperTitleGif>>)},
      {File(<<INDEX_NAME>>)}, {Dir(<<INDEX_NAME>>)}, {File(<<TitleTxt>>)},
      {Dir(<<SubName>>), File(<<SubName, TitleJpg>>)} }

\* the nodes ns moved below the folder d
Below(d, ns) == {[path |-> d \o n.path, kind |-> n.kind] : n \in ns}

\* no two nodes of ns share a path
DistinctPaths(ns) == \A a, b \in ns : a.path = b.path => a = b

NoOutput == [state |-> "absent", cards |-> <<>>]
OldOutput == [state |-> "old", cards |-> <<>>]
PartialOutput == [state |-> "partial", cards |-> <<>>]
Written(cards) == [state |-> "written", cards |-> cards]

\* the state of a fresh process, before main() has done anything
Fresh ==
    /\ pc = "list"
    /\ candidates = <<>>
    /\ pos = 1
    /\ folders = <<>>
    /\ html = <<>>
    /\ writes = 0
    /\ exitStatus = -1
    /\ run = 1
    /\ firstOut = NoOutput

\* folder-content scenarios: one child folder holding up to MaxFiles
\* children, next to a regular file title.jpg in the root itself
FolderNames == {D20240102a, MyDir, Drafts, Readme}

InitFolder ==
    /\ \E d \in FolderNames : \E cs \in SubsetsUpTo(ChildUniverse, MaxFiles) :
          /\ DistinctPaths(UNION cs)
          /\ tree = {Dir(<<d>>), File(<<TitleJpg>>)} \cup Below(<<d>>, UNION cs)
    /\ unreadable = {}
    /\ writable = "ok"
    /\ outContent = NoOutput
    /\ Fresh

\* sorting scenarios: up to MaxDirs child folders, each with a title.jpg
SortNames ==
    {D20240102a, D20240101a, D20240101b, D18991231a, D19000101a, D00010101a,
     D99991231, Bad20241301a, Bad20230229a, Bad00000101a, Readme, SevenDigits}

InitSort ==
    /\ \E ds \in SubsetsUpTo(SortNames, MaxDirs) :
          tree = UNION { {Dir(<<d>>), File(<<d, TitleJpg>>)} : d \in ds }
    /\ unreadable = {}
    /\ writable = "ok"
    /\ outContent = NoOutput
    /\ Fresh

\* failure scenarios: folders with or without a cover, up to MaxFaults
\* directories whose listing is denied, an output file that may be
\* unwritable, and an index.html that may exist before the run
FaultNames == {D20240102a, Readme, Drafts}
FaultContents ==
    { {}, {File(<<TitleJpg>>)}, {File(<<UpperTitleJpg>>)}, {File(<<TitleTxt>>)} }

InitFault ==
    /\ \E ds \in SubsetsUpTo(FaultNames, MaxDirs) : \E c \in [ds -> FaultContents] :
          /\ tree \in { base \cup UNION { {Dir(<<d>>)} \cup Below(<<d>>, c[d]) : d \in ds } :
                          base \in { {}, {File(<<OUTPUT_FILE>>)} } }
          /\ unreadable \in SubsetsUpTo({<<>>} \cup {<<d>> : d \in ds}, MaxFaults)
    /\ writable \in {"ok", "denied", "nospace"}
    /\ outContent = IF Exists(tree, <<OUTPUT_FILE>>) THEN OldOutput ELSE NoOutput
    /\ Fresh

\* ----------------------------------------------------------------- actions
\* variant: the exception is swallowed and the process exits 0
Abort_exit_zero ==
    /\ pc' = "done"
    /\ exitStatus' = 0

\* an uncaught exception: the interpreter prints the traceback and exits 1
Abort ==
    /\ pc' = "failed"
    /\ exitStatus' = 1

\* collect_entries: candidates = [p for p in root.iterdir() if p.is_dir()]
ListRoot ==
    /\ pc = "list"
    /\ IF <<>> \in unreadable
       THEN /\ Abort
            /\ UNCHANGED <<candidates, pos>>
       ELSE /\ \E ord \in Perms(IterDir(tree, <<>>)) :
                  candidates' = SelectSeq(ord, LAMBDA p : IsDir(tree, p))
            /\ pos' = 1
            /\ pc' = "scan"
            /\ UNCHANGED exitStatus
    /\ UNCHANGED <<tree, unreadable, writable, folders, html, outContent,
                   writes, run, firstOut>>

\* d.name.startswith(EXCLUDE_DIR_PREFIXES)
Excluded(name) == \E pre \in EXCLUDE_DIR_PREFIXES : StartsWith(name, pre)

\* the dict appended for folder d with cover img
Entry(t, d, img) ==
    [name |-> BaseName(d), dir |-> d, img |-> img, href |-> link_target(t, d)]

\* one iteration of "for d in candidates"
ScanFolder ==
    /\ pc = "scan"
    /\ pos <= Len(candidates)
    /\ LET d == candidates[pos]
       IN IF Excluded(BaseName(d))
          THEN /\ pos' = pos + 1
               /\ UNCHANGED <<pc, folders, exitStatus>>
          ELSE \E ord \in Perms(IterDir(tree, d)) :
                 LET r == has_title_image(tree, unreadable, d, ord)
                 IN IF r.tag = "raise"
                    THEN /\ Abort
                         /\ UNCHANGED <<pos, folders>>
                    ELSE /\ folders' = IF r.tag = "path"
                                       THEN Append(folders, Entry(tree, d, r.path))
                                       ELSE folders
                         /\ pos' = pos + 1
                         /\ UNCHANGED <<pc, exitStatus>>
    /\ UNCHANGED <<tree, unreadable, writable, candidates, html, outContent,
                   writes, run, firstOut>>

\* folders.sort(key=sort_key, reverse=SORT_DESC); return folders
SortEntries ==
    /\ pc = "scan"
    /\ pos > Len(candidates)
    /\ folders' = SortFolders(folders, SORT_DESC)
    /\ pc' = "build"
    /\ UNCHANGED <<tree, unreadable, writable, candidates, pos, html,
                   outContent, writes, exitStatus, run, firstOut>>

\* html = build_html(entries)
BuildHtml ==
    /\ pc = "build"
    /\ html' = build_html(folders)
    /\ pc' = "write"
    /\ UNCHANGED <<tree, unreadable, writable, candidates, pos, folders,
                   outContent, writes, exitStatus, run, firstOut>>

\* variant: the page is written without waiting for the scan to finish
WriteOutput_during_scan ==
    /\ pc \in {"scan", "write"}
    /\ tree' = tree \cup {File(<<OUTPUT_FILE>>)}
    /\ writes' = writes + 1
    /\ outContent' = Written(html)
    /\ pc' = "done"
    /\ exitStatus' = 0
    /\ UNCHANGED <<unreadable, writable, candidates, pos, folders, html,
                   run, firstOut>>

\* (root / OUTPUT_FILE).write_text(html): open for writing truncates the
\* file, then the text is written; the open or the write may fail
WriteOutput ==
    /\ pc = "write"
    /\ IF writable = "denied"
       THEN /\ Abort
            /\ UNCHANGED <<tree, outContent, writes>>
       ELSE /\ tree' = tree \cup {File(<<OUTPUT_FILE>>)}
            /\ writes' = writes + 1
            /\ IF writable = "nospace"
               THEN /\ outContent' = PartialOutput
                    /\ Abort
               ELSE /\ outContent' = Written(html)
                    /\ pc' = "done"
                    /\ exitStatus' = 0
    /\ UNCHANGED <<unreadable, writable, candidates, pos, folders, html,
                   run, firstOut>>

\* the indexer is started a second time on the tree the first run left
Rerun ==
    /\ pc = "done"
    /\ run = 1
    /\ run' = 2
    /\ firstOut' = outContent
    /\ pc' = "list"
    /\ candidates' = <<>>
    /\ pos' = 1
    /\ folders' = <<>>
    /\ html' = <<>>
    /\ writes' = 0
    /\ exitStatus' = -1
    /\ UNCHANGED <<tree, unreadable, writable, outContent>>

Next ==
    \/ ListRoot
    \/ ScanFolder
    \/ SortEntries
    \/ BuildHtml
    \/ WriteOutput
    \/ Rerun

Spec == InitFolder /\ [][Next]_vars
SpecSort == InitSort /\ [][Next]_vars
SpecFault == InitFault /\ [][Next]_vars

\* ------------------------------------------------------------- properties
\* collect_entries has returned: folders is its sorted result
Collected == pc \in {"build", "write", "done"}

\* the positions of folders
Positions == 1..Len(folders)

\* f is a regular file named "title"+IMAGE_EXTS[k] up to letter case
CaseVariant(f, k) ==
    /\ IsFile(tree, f)
    /\ Lower(BaseName(f)) = IMAGE_BASENAME \o IMAGE_EXTS[k]

\* the exactly named path "title"+IMAGE_EXTS[k] of folder d
ExactPath(d, k) == Append(d, IMAGE_BASENAME \o IMAGE_EXTS[k])

\* C1: collect_entries returns an entry for a folder d if and only if d is
\* a direct child directory of the root, d's name starts with neither '.'
\* nor '_', and d contains a regular file that is "title.<allowed ext>" up
\* to letter case.
C1_EntryIffTitleFile ==
    Collected =>
      \A n \in tree : n.kind = "dir" =>
        ( (\E i \in Positions : folders[i].dir = n.path)
          <=> ( /\ Len(n.path) = 1
                /\ n.path[1][1] \notin {46, 95}
                /\ \E f \in IterDir(tree, n.path) :
                      \E k \in 1..Len(IMAGE_EXTS) : CaseVariant(f, k) ) )

\* C2 as stated: when a folder holds an exactly named file "title"+ext, the
\* cover is the exact file of the first such extension of IMAGE_EXTS,
\* whatever case variants of other extensions the folder holds.
C2_ExactBeatsEveryVariant ==
    \A i \in Positions :
      LET d == folders[i].dir
          exacts == {k \in 1..Len(IMAGE_EXTS) : IsFile(tree, ExactPath(d, k))}
      IN exacts # {} =>
           folders[i].img = ExactPath(d, CHOOSE k \in exacts : \A j \in exacts : k <= j)

\* C2 amended: the cover belongs to the first extension of IMAGE_EXTS for
\* which the folder holds the exactly named path or a case variant of it;
\* within that extension the exactly named path wins, and a case variant is
\* the cover only when the exact path of that extension does not exist.
C2_ExtensionOrderFirst ==
    \A i \in Positions :
      LET d == folders[i].dir
          has(k) == \/ Exists(tree, ExactPath(d, k))
                    \/ \E f \in IterDir(tree, d) : CaseVariant(f, k)
          ks == {k \in 1..Len(IMAGE_EXTS) : has(k)}
          k0 == CHOOSE k \in ks : \A j \in ks : k <= j
      IN /\ ks # {}
         /\ IF Exists(tree, ExactPath(d, k0))
            THEN folders[i].img = ExactPath(d, k0)
            ELSE folders[i].img \in IterDir(tree, d) /\ CaseVariant(folders[i].img, k0)

\* a folder with TITLE.JPG and title.png got TITLE.JPG as its cover
C2_Witness ==
    \E i \in Positions :
      LET d == folders[i].dir
      IN /\ IsFile(tree, Append(d, UpperTitleJpg))
         /\ IsFile(tree, Append(d, TitlePng))
         /\ folders[i].img = Append(d, UpperTitleJpg)

\* the name starts with eight digits that denote a calendar date
Dated(name) == looks_like_yyyymmdd_prefix(name).ok

\* C3: in the result of collect_entries every entry without a valid
\* YYYYMMDD prefix comes after every entry with one.
C3_UndatedAfterDated ==
    Collected =>
      \A i, j \in Positions :
        (~Dated(folders[i].name) /\ Dated(folders[j].name)) => j < i

\* C4: a card's href is the path of the folder's _index.html when that file
\* exists in the folder, and otherwise the folder's path followed by '/'.
C4_HrefIndexOrFolderSlash ==
    pc \in {"write", "done"} =>
      \A i \in 1..Len(html) :
        LET d == folders[i].dir
        IN html[i].href =
             IF IsFile(tree, Append(d, INDEX_NAME))
             THEN quote(PathStr(Append(d, INDEX_NAME)))
             ELSE quote(PathStr(d) \o <<47>>)

\* C5: the second run on the tree the first run left writes the same page
\* as the first run, whatever the orders of the directory listings.
C5_SecondRunSameOutput ==
    (pc = "done" /\ run = 2) => outContent = firstOut

\* two names that start with the same eight digits
SamePrefix(a, b) == SubSeq(a, 1, 8) = SubSeq(b, 1, 8)

\* C6 as stated: of two entries with the same valid date prefix the one with
\* the smaller full name comes first.
C6_TieByNameAscending ==
    Collected =>
      \A i, j \in Positions :
        ( /\ Dated(folders[i].name) /\ Dated(folders[j].name)
          /\ SamePrefix(folders[i].name, folders[j].name)
          /\ StrLess(folders[i].name, folders[j].name) ) => i < j

\* C6 amended: under the default descending order, of two entries with the
\* same valid date prefix the one with the greater full name comes first.
C6_TieByNameDescending ==
    Collected =>
      \A i, j \in Positions :
        ( /\ Dated(folders[i].name) /\ Dated(folders[j].name)
          /\ SamePrefix(folders[i].name, folders[j].name)
          /\ StrLess(folders[i].name, folders[j].name) ) => j < i

\* 20240101_a and 20240101_b are both in the sorted result
C6_Witness ==
    /\ Collected
    /\ \E i, j \in Positions :
         folders[i].name = D20240101a /\ folders[j].name = D20240101b

\* the date the first eight digits of a dated name denote, as one number
DateNumber(name) == DigitsVal(name, 1, 8)

\* C7: of two entries with valid prefixes of different dates the later date
\* comes first, and the cards of the page follow the order of the entries.
C7_LaterDateFirst ==
    /\ Collected =>
         \A i, j \in Positions :
           ( /\ Dated(folders[i].name) /\ Dated(folders[j].name)
             /\ DateNumber(folders[i].name) > DateNumber(folders[j].name) ) => i < j
    /\ pc \in {"write", "done"} =>
         /\ Len(html) = Len(folders)
         /\ \A i \in Positions :
              /\ html[i].alt = folders[i].name
              /\ html[i].src = quote(PathStr(folders[i].img))
    /\ pc = "done" => outContent.cards = html

\* a page was written whose cards hold two different valid dates
C7_Witness ==
    /\ pc = "done"
    /\ \E i, j \in 1..Len(outContent.cards) :
         /\ outContent.cards[i].alt = D20240102a
         /\ outContent.cards[j].alt = D20240101a

\* the names of the sorting scenarios whose eight digits are no date
InvalidDated == {Bad20241301a, Bad20230229a, Bad00000101a}
\* the names of the sorting scenarios without eight leading digits
Undated == {Readme, SevenDigits}

\* the position of the entry named n in folders, 0 when there is none
PosOf(n) ==
    IF \E i \in Positions : folders[i].name = n
    THEN CHOOSE i \in Positions : folders[i].name = n
    ELSE 0

\* C8: a folder whose eight leading digits are no calendar date is kept as
\* an entry with the sort key (1900-01-01, name) of an undated folder;
\* invalid-dated and undated entries are ordered among themselves by full
\* name alone and stand on the same side of every validly dated entry.
C8_InvalidDateSortsAsUndated ==
    /\ \A n \in InvalidDated \cup Undated : sort_key([name |-> n]) = <<EpochDate, n>>
    /\ Collected =>
         /\ \A n \in InvalidDated : IsDir(tree, <<n>>) => PosOf(n) > 0
         /\ \A a, b \in InvalidDated \cup Undated :
              (PosOf(a) > 0 /\ PosOf(b) > 0 /\ StrLess(a, b)) => PosOf(b) < PosOf(a)
         /\ \A x \in InvalidDated, u \in Undated, i \in Positions :
              (PosOf(x) > 0 /\ PosOf(u) > 0 /\ Dated(folders[i].name)) =>
                 ((PosOf(x) < i) <=> (PosOf(u) < i))

\* the sorted result holds an invalid-dated, an undated and a dated entry
C8_Witness ==
    /\ Collected
    /\ PosOf(Bad20241301a) > 0
    /\ PosOf(Readme) > 0
    /\ PosOf(D20240102a) > 0

\* the step of a run that is about to fail: listing an unreadable root,
\* listing an unreadable candidate whose title.jpg probe missed, or writing
\* an output file that cannot be written
StepFails ==
    \/ pc = "list" /\ <<>> \in unreadable
    \/ /\ pc = "scan" /\ pos <= Len(candidates)
       /\ candidates[pos][1][1] \notin {46, 95}
       /\ candidates[pos] \in unreadable
       /\ ~Exists(tree, Append(candidates[pos], TitleJpg))
    \/ pc = "write" /\ writable # "ok"

\* C9: a failing step aborts the run: it ends failed with a non-zero
\* status, no further folder is processed and nothing is retried; a step
\* that does not fail, such as the scan of a readable folder without a
\* cover, never aborts.
C9_FailureAborts ==
    [][ /\ StepFails => (pc' = "failed" /\ exitStatus' = 1 /\ pos' = pos /\ folders' = folders)
        /\ ~StepFails => pc' # "failed"
        /\ pc = "failed" => UNCHANGED vars
        /\ exitStatus' = 0 <=> pc' = "done" ]_vars

\* the scan failed at an unreadable folder with a candidate still to come
C9_Witness ==
    /\ pc = "failed"
    /\ exitStatus = 1
    /\ pos < Len(candidates)
    /\ candidates[pos] \in unreadable

\* the tree without the output file
Scanned(t) == t \ {File(<<OUTPUT_FILE>>)}

\* C10: index.html is written at most once per run and only by the write
\* step that follows the complete scan and the rendering; a run that fails
\* before that step leaves an existing index.html as it was; no step
\* changes the scanned folders and their files.
C10_WriteOnlyAtEnd ==
    [][ /\ writes' <= 1
        /\ (outContent' # outContent \/ writes' > writes
              \/ Exists(tree', <<OUTPUT_FILE>>) # Exists(tree, <<OUTPUT_FILE>>)) =>
             ( /\ pc = "write"
               /\ pos > Len(candidates)
               /\ html = build_html(folders)
               /\ writes' = 1 )
        /\ (pc' = "failed" /\ pc # "write") => (writes' = 0 /\ outContent' = outContent)
        /\ Scanned(tree') = Scanned(tree) ]_vars

\* a scan failed while an older index.html existed, which is untouched
C10_Witness ==
    /\ pc = "failed"
    /\ pos <= Len(candidates)
    /\ writes = 0
    /\ outContent = OldOutput
====
